---- MODULE Spec2Model ----
(***************************************************************************)
(* SendDeploy (src/src/SendDeploy/cli.py): the profile store kept in       *)
(* SendDeployV2.json, the curses menu (interactive_select) and the driver  *)
(* loop (application).  The config file is a sequence of JSON tokens, so   *)
(* that a save in progress, a crash and a concurrent reader can see the    *)
(* file half written, and load_entries parses what is really there.        *)
(***************************************************************************)
EXTENDS Integers, Sequences, FiniteSets, TLC

\* ---------------------------------------------------------------- bounds
MaxEntries == 3

\* writes of the config file that may fail in one run
MaxWriteFailures == 1

Profiles == {"pA", "pB"}

\* ------------------------------------------------------- JSON token layer
Digits == <<"0", "1", "2", "3", "4", "5", "6">>

IdxRange == -1 .. (Len(Digits) - 1)

IdxStr(i) == IF i = -1 THEN "-1" ELSE Digits[i + 1]

NumToks == {IdxStr(i) : i \in IdxRange}

StrIdx(t) == CHOOSE i \in IdxRange : IdxStr(i) = t

\* json.dump of {"entries": entries, "last_selected_idx": idx}
Dump(es, idx) ==
    <<"{", "entries", "[">> \o es \o <<"]", "last_selected_idx", IdxStr(idx), "}">>

JsonError == [kind |-> "error", hasEntries |-> FALSE, entries |-> <<>>,
              hasIdx |-> FALSE, idx |-> -1]

JsonScalar(k) == [kind |-> k, hasEntries |-> FALSE, entries |-> <<>>,
                  hasIdx |-> FALSE, idx |-> -1]

JsonObject(he, es, hi, i) == [kind |-> "object", hasEntries |-> he, entries |-> es,
                              hasIdx |-> hi, idx |-> i]

\* the "last_selected_idx": n member, or nothing, after the entries member
ParseTail(es, rest) ==
    IF rest = <<>> THEN JsonObject(TRUE, es, FALSE, -1)
    ELSE IF Len(rest) = 2 /\ rest[1] = "last_selected_idx" /\ rest[2] \in NumToks
         THEN JsonObject(TRUE, es, TRUE, StrIdx(rest[2]))
         ELSE JsonError

\* the members between the braces of an object
ParseMembers(b) ==
    IF b = <<>> THEN JsonObject(FALSE, <<>>, FALSE, -1)
    ELSE IF b[1] = "last_selected_idx"
         THEN IF Len(b) = 2 /\ b[2] \in NumToks
              THEN JsonObject(FALSE, <<>>, TRUE, StrIdx(b[2]))
              ELSE JsonError
    ELSE IF b[1] = "entries" /\ Len(b) >= 3 /\ b[2] = "["
              /\ \E j \in 3 .. Len(b) : b[j] = "]"
         THEN LET j == CHOOSE k \in 3 .. Len(b) :
                          /\ b[k] = "]"
                          /\ \A m \in 3 .. (k - 1) : b[m] # "]"
              IN  IF \A m \in 3 .. (j - 1) : b[m] \in Profiles
                  THEN ParseTail(SubSeq(b, 3, j - 1), SubSeq(b, j + 1, Len(b)))
                  ELSE JsonError
         ELSE JsonError

\* json.load: the value held by a token sequence, or a decode error
JsonLoad(t) ==
    IF t = <<>> THEN JsonError
    ELSE IF t = <<"null">> THEN JsonScalar("null")
    ELSE IF Len(t) = 1 /\ t[1] \in NumToks THEN JsonScalar("number")
    ELSE IF t = <<"[", "]">> THEN JsonScalar("list")
    ELSE IF Len(t) >= 2 /\ t[1] = "{" /\ t[Len(t)] = "}"
         THEN ParseMembers(SubSeq(t, 2, Len(t) - 1))
         ELSE JsonError

\* ------------------------------------------------------------ load_entries
DefaultData == [raised |-> FALSE, entries |-> <<>>, last_selected_idx |-> -1]

RaisedData == [raised |-> TRUE, entries |-> <<>>, last_selected_idx |-> -1]

load_entries(f) ==
    IF ~f.exists THEN DefaultData
    ELSE LET data == JsonLoad(f.content)
         IN  IF data.kind = "error" THEN DefaultData
             ELSE IF data.kind # "object" THEN RaisedData
             ELSE [raised |-> FALSE,
                   entries |-> IF data.hasEntries THEN data.entries ELSE <<>>,
                   last_selected_idx |-> IF data.hasIdx THEN data.idx ELSE -1]

\* the stored index is used as it is
NormIdx_mut(i) == i

\* application lines 295-296
NormIdx(i) == IF i = -1 THEN 0 ELSE i

\* ------------------------------------------------------------ remove_entry
\* the index taken as 1-based
DelAt_mut(es, i) == SubSeq(es, 1, i - 1) \o SubSeq(es, i + 1, Len(es))

DelAt(es, i) == SubSeq(es, 1, i) \o SubSeq(es, i + 2, Len(es))

remove_entry(es, idx) ==
    IF 0 <= idx /\ idx < Len(es) THEN DelAt(es, idx) ELSE es

\* a Python list index that does not raise IndexError
PyIndexOk(es, i) == -Len(es) <= i /\ i < Len(es)

\* entries[i] as Python reads it
PyAt(es, i) == IF i < 0 THEN es[Len(es) + i + 1] ELSE es[i + 1]

\* ------------------------------------------------------------------ state
VARIABLES pc, quiet, file, entries, last_selected_idx, selected_idx, key, action,
          svTarget, svCont, svPrev, exitStatus, fault, readerSaw,
          mutated, writeFailures, before,
          screen, report, reportRaw,
          localFile, connects, uploads, sentTo,
          echo, typed, normalised

\* the terminal: curses or normal mode, the last line printed, and whether it
\* was printed while curses mode was still on
termVars == <<screen, report, reportRaw>>

\* the transfer: whether args.filename exists, the calls of ssh.connect and
\* scp_client.put, and the profile send_file was called with
xferVars == <<localFile, connects, uploads, sentTo>>

\* add_new_entry: the echo mode and the fields read so far
addVars == <<echo, typed>>

vars == <<pc, quiet, file, entries, last_selected_idx, selected_idx, key, action,
          svTarget, svCont, svPrev, exitStatus, fault, readerSaw,
          mutated, writeFailures, before, termVars, xferVars, addVars, normalised>>

\* some write of this run has failed
writeFailed == writeFailures > 0

NoFile == [exists |-> FALSE, content |-> <<>>]

FileOf(t) == [exists |-> TRUE, content |-> t]

NoAction == [tag |-> "none", idx |-> -1]

Store(es, i) == [entries |-> es, last_selected_idx |-> i]

SeqsUpTo(n) == UNION {[1 .. k -> Profiles] : k \in 0 .. n}

\* stores the config file may hold when the program starts
ValidStores ==
    {Store(es, i) : es \in {<<>>}, i \in {-1, 0}}
    \cup {s \in [entries : SeqsUpTo(MaxEntries) \ {<<>>}, last_selected_idx : -1 .. (MaxEntries - 1)] :
             s.last_selected_idx < Len(s.entries)}

InitFiles ==
    {NoFile}
    \cup {FileOf(Dump(s.entries, s.last_selected_idx)) : s \in ValidStores}
    \cup {FileOf(<<>>), FileOf(<<"{", "entries", "[", "pA">>)}
    \cup {FileOf(<<"{", "}">>)}
    \cup {FileOf(<<"null">>), FileOf(<<"[", "]">>), FileOf(<<"5">>)}

Init ==
    /\ pc = "start"
    /\ quiet \in BOOLEAN
    /\ file \in InitFiles
    /\ entries = <<>>
    /\ last_selected_idx = -1
    /\ selected_idx = -1
    /\ key = "none"
    /\ action = NoAction
    /\ svTarget = <<>>
    /\ svCont = "none"
    /\ svPrev = NoFile
    /\ exitStatus = -1
    /\ fault = "none"
    /\ readerSaw = "none"
    /\ mutated = FALSE
    /\ writeFailures = 0
    /\ before = Store(<<>>, -1)
    /\ screen = "curses"
    /\ report = "none"
    /\ reportRaw = FALSE
    /\ localFile \in BOOLEAN
    /\ connects = 0
    /\ uploads = 0
    /\ sentTo = "none"
    /\ echo = TRUE
    /\ typed = <<>>
    /\ normalised = FALSE

\* ------------------------------------------------------------ save_entries
\* save_entries(es, i) is entered; cont is where the caller goes on afterwards
BeginSave(es, i, cont) ==
    /\ pc' = "save_open"
    /\ svTarget' = Dump(es, i)
    /\ svCont' = cont
    /\ svPrev' = file

\* the caller's code after save_entries has returned, up to its next blocking call
Resume(cont) ==
    CASE cont = "clear" ->          \* lines 317-322
            /\ entries' = <<>>
            /\ last_selected_idx' = -1
            /\ pc' = "wait_clear"
            /\ UNCHANGED <<selected_idx, exitStatus, fault>>
      [] cont = "loop" ->           \* continue; line 310, line 199
            /\ pc' = "browsing"
            /\ selected_idx' = last_selected_idx
            /\ UNCHANGED <<entries, last_selected_idx, exitStatus, fault>>
      [] cont = "selected" ->       \* lines 351-356
            /\ IF PyIndexOk(entries, last_selected_idx)
               THEN pc' = "transfer" /\ UNCHANGED <<exitStatus, fault>>
               ELSE pc' = "exited" /\ exitStatus' = 1 /\ fault' = "IndexError"
            /\ UNCHANGED <<entries, last_selected_idx, selected_idx>>
      [] cont = "quit" ->           \* line 361, return to main
            /\ pc' = "exited"
            /\ exitStatus' = 0
            /\ UNCHANGED <<entries, last_selected_idx, selected_idx, fault>>

\* what Resume(cont) prints and does to the terminal; failed: lines 49-50 have
\* just printed the save error
ResumeOut(cont, failed) ==
    CASE cont = "clear" ->          \* line 59, printed in curses mode
            /\ report' = "cleared"
            /\ reportRaw' = TRUE
            /\ UNCHANGED <<screen, sentTo>>
      [] cont = "loop" ->
            /\ report' = IF failed THEN "save_error" ELSE report
            /\ reportRaw' = IF failed THEN TRUE ELSE reportRaw
            /\ UNCHANGED <<screen, sentTo>>
      [] cont = "selected" ->       \* line 351, then line 354 or main lines 376-380
            /\ screen' = "normal"
            /\ reportRaw' = FALSE
            /\ IF PyIndexOk(entries, last_selected_idx)
               THEN /\ report' = "copying"
                    /\ sentTo' = PyAt(entries, last_selected_idx)
               ELSE /\ report' = "error"
                    /\ UNCHANGED sentTo
      [] cont = "quit" ->           \* main line 382
            /\ screen' = "normal"
            /\ report' = IF failed THEN "save_error" ELSE report
            /\ reportRaw' = IF failed THEN TRUE ELSE reportRaw
            /\ UNCHANGED sentTo

SaveDone ==
    /\ svTarget' = <<>>
    /\ svCont' = "none"
    /\ svPrev' = NoFile

\* line 47: open(CONFIG_PATH, 'w') truncates the file
SaveOpen ==
    /\ pc = "save_open"
    /\ file' = FileOf(<<>>)
    /\ pc' = "save_write"
    /\ UNCHANGED <<quiet, entries, last_selected_idx, selected_idx, key, action, svTarget, svCont, svPrev, exitStatus, fault, readerSaw, mutated,
                   writeFailures, before>>
    /\ UNCHANGED <<termVars, xferVars, addVars, normalised>>

\* line 47 raises (lines 49-50 report it): the file is left as it was
SaveOpenFail ==
    /\ pc = "save_open"
    /\ writeFailures < MaxWriteFailures
    /\ writeFailures' = writeFailures + 1
    /\ Resume(svCont)
    /\ SaveDone
    /\ UNCHANGED <<quiet, file, key, action, readerSaw, mutated, before>>
    /\ ResumeOut(svCont, TRUE)
    /\ UNCHANGED <<localFile, connects, uploads, addVars, normalised>>

\* line 48: json.dump writes through the file buffer; any longer prefix may reach the file
SaveWrite ==
    /\ pc = "save_write"
    /\ \E n \in (Len(file.content) + 1) .. Len(svTarget) :
           file' = FileOf(SubSeq(svTarget, 1, n))
    /\ UNCHANGED <<pc, quiet, entries, last_selected_idx, selected_idx, key, action, svTarget, svCont, svPrev, exitStatus, fault, readerSaw, mutated,
                   writeFailures, before>>
    /\ UNCHANGED <<termVars, xferVars, addVars, normalised>>

\* end of the with block: everything is written, save_entries returns
SaveClose ==
    /\ pc = "save_write"
    /\ file.content = svTarget
    /\ Resume(svCont)
    /\ SaveDone
    /\ UNCHANGED <<quiet, file, key, action, readerSaw, mutated, writeFailures, before>>
    /\ ResumeOut(svCont, FALSE)
    /\ UNCHANGED <<localFile, connects, uploads, addVars, normalised>>

\* line 48 raises part way (lines 49-50 report it): the file stays incomplete
SaveDumpFail ==
    /\ pc = "save_write"
    /\ writeFailures < MaxWriteFailures
    /\ file.content # svTarget
    /\ writeFailures' = writeFailures + 1
    /\ Resume(svCont)
    /\ SaveDone
    /\ UNCHANGED <<quiet, file, key, action, readerSaw, mutated, before>>
    /\ ResumeOut(svCont, TRUE)
    /\ UNCHANGED <<localFile, connects, uploads, addVars, normalised>>

\* ---------------------------------------------------- application: startup
StartLoad ==
    /\ pc = "start"
    /\ LET data == load_entries(file)
           idx  == NormIdx(data.last_selected_idx)
           warn == IF ~file.exists THEN "warn_missing"            \* line 30
                   ELSE IF JsonLoad(file.content).kind = "error"
                        THEN "warn_corrupt"                       \* line 33
                        ELSE "none"
       IN  /\ IF data.raised
              THEN /\ pc' = "exited"               \* main lines 376-380
                   /\ exitStatus' = 1
                   /\ fault' = "TypeError"
                   /\ screen' = "normal"
                   /\ report' = "error"
                   /\ reportRaw' = FALSE
                   /\ UNCHANGED <<entries, last_selected_idx, selected_idx, before,
                                  sentTo, normalised>>
              ELSE /\ entries' = data.entries
                   /\ last_selected_idx' = idx
                   /\ normalised' = (data.last_selected_idx = -1)
                   /\ before' = Store(data.entries, idx)
                   /\ IF quiet
                      THEN /\ UNCHANGED selected_idx
                           /\ screen' = "normal"   \* line 300
                           /\ reportRaw' = FALSE
                           /\ IF data.entries = <<>>
                              THEN pc' = "exited" /\ exitStatus' = 0
                                   /\ report' = "no_connections"
                                   /\ UNCHANGED <<fault, sentTo>>
                              ELSE IF PyIndexOk(data.entries, idx)
                                   THEN pc' = "transfer" /\ UNCHANGED <<exitStatus, fault>>
                                        /\ report' = "copying"
                                        /\ sentTo' = PyAt(data.entries, idx)
                                   ELSE pc' = "exited" /\ exitStatus' = 1
                                        /\ fault' = "IndexError"
                                        /\ report' = "error"
                                        /\ UNCHANGED sentTo
                      ELSE /\ pc' = "browsing"
                           /\ selected_idx' = idx
                           /\ report' = warn
                           /\ reportRaw' = (warn # "none")
                           /\ UNCHANGED <<exitStatus, fault, screen, sentTo>>
    /\ UNCHANGED <<quiet, file, key, action, svTarget, svCont, svPrev,
                   readerSaw, mutated, writeFailures, localFile, connects, uploads, addVars>>

\* ------------------------------------------------------ interactive_select
\* line 207: one key is read
GetKey(k) ==
    /\ pc = "browsing"
    /\ key' = k

KeyUp ==
    /\ GetKey("UP")
    /\ selected_idx' = IF selected_idx > 0 THEN selected_idx - 1 ELSE selected_idx
    /\ UNCHANGED <<pc, quiet, file, entries, last_selected_idx, action, svTarget, svCont,
                   svPrev, exitStatus, fault, readerSaw, mutated, writeFailures, before>>
    /\ UNCHANGED <<termVars, xferVars, addVars, normalised>>

\* the last row is not excluded
DownGuard_mut(i, es) == i < Len(es)

DownGuard(i, es) == i < Len(es) - 1

KeyDown ==
    /\ GetKey("DOWN")
    /\ selected_idx' = IF DownGuard(selected_idx, entries)
                       THEN selected_idx + 1 ELSE selected_idx
    /\ UNCHANGED <<pc, quiet, file, entries, last_selected_idx, action, svTarget, svCont,
                   svPrev, exitStatus, fault, readerSaw, mutated, writeFailures, before>>
    /\ UNCHANGED <<termVars, xferVars, addVars, normalised>>

\* a key the menu does not know: redraw only
KeyOther ==
    /\ GetKey("other")
    /\ UNCHANGED <<pc, quiet, file, entries, last_selected_idx, selected_idx, action,
                   svTarget, svCont, svPrev, exitStatus, fault, readerSaw, mutated,
                   writeFailures, before>>
    /\ UNCHANGED <<termVars, xferVars, addVars, normalised>>

\* lines 215-216, then application lines 347-349
KeyEnter ==
    /\ GetKey("ENTER")
    /\ action' = [tag |-> "selected", idx |-> selected_idx]
    /\ before' = Store(entries, last_selected_idx)
    /\ mutated' = TRUE
    /\ last_selected_idx' = selected_idx
    /\ BeginSave(entries, selected_idx, "selected")
    /\ UNCHANGED <<quiet, file, entries, selected_idx, exitStatus, fault, readerSaw, writeFailures>>
    /\ UNCHANGED <<termVars, xferVars, addVars, normalised>>

\* lines 217-218, then application lines 339-340 and add_new_entry lines 247-253
KeyN ==
    /\ GetKey("n")
    /\ Len(entries) < MaxEntries
    /\ action' = [tag |-> "add", idx |-> -1]
    /\ before' = Store(entries, last_selected_idx)
    /\ pc' = "add_ip"
    /\ echo' = TRUE                 \* line 253
    /\ typed' = <<>>
    /\ UNCHANGED <<quiet, file, entries, last_selected_idx, selected_idx, svTarget, svCont,
                   svPrev, exitStatus, fault, readerSaw, mutated, writeFailures>>
    /\ UNCHANGED <<termVars, xferVars, normalised>>

\* lines 219-220, then application lines 315-316 and clear_entries
KeyA ==
    /\ GetKey("a")
    /\ action' = [tag |-> "clear", idx |-> -1]
    /\ before' = Store(entries, last_selected_idx)
    /\ mutated' = TRUE
    /\ BeginSave(<<>>, -1, "clear")
    /\ UNCHANGED <<quiet, file, entries, last_selected_idx, selected_idx, exitStatus, fault,
                   readerSaw, writeFailures>>
    /\ UNCHANGED <<termVars, xferVars, addVars, normalised>>

\* the index is left where it was
ClampIdx_mut(i, es) == i

\* the index is reset to the first profile
ClampIdx_zero(i, es) == 0

\* application line 331
ClampIdx(i, es) == IF i < Len(es) - 1 THEN i ELSE Len(es) - 1

\* the remembered index is returned in place of the cursor
KeyC_mut ==
    /\ GetKey("c")
    /\ action' = [tag |-> "remove", idx |-> last_selected_idx]
    /\ before' = Store(entries, last_selected_idx)
    /\ mutated' = TRUE
    /\ entries' = remove_entry(entries, last_selected_idx)
    /\ last_selected_idx' = IF entries' = <<>> THEN -1
                            ELSE ClampIdx(last_selected_idx, entries')
    /\ pc' = "wait_remove"
    /\ UNCHANGED <<quiet, file, selected_idx, svTarget, svCont, svPrev, exitStatus, fault,
                   readerSaw, writeFailures>>
    /\ UNCHANGED <<termVars, xferVars, addVars, normalised>>

\* lines 221-222, then application lines 326-335
KeyC ==
    /\ GetKey("c")
    /\ action' = [tag |-> "remove", idx |-> selected_idx]
    /\ before' = Store(entries, last_selected_idx)
    /\ mutated' = TRUE
    /\ entries' = remove_entry(entries, selected_idx)
    /\ last_selected_idx' = IF entries' = <<>> THEN -1
                            ELSE ClampIdx(last_selected_idx, entries')
    /\ pc' = "wait_remove"
    /\ UNCHANGED <<quiet, file, selected_idx, svTarget, svCont, svPrev, exitStatus, fault,
                   readerSaw, writeFailures>>
    /\ UNCHANGED <<termVars, xferVars, addVars, normalised>>

\* lines 223-224, then application lines 312-313 and 361
KeyQ ==
    /\ GetKey("q")
    /\ action' = [tag |-> "quit", idx |-> -1]
    /\ before' = Store(entries, last_selected_idx)
    /\ BeginSave(entries, last_selected_idx, "quit")
    /\ UNCHANGED <<quiet, file, entries, last_selected_idx, selected_idx, exitStatus, fault,
                   readerSaw, mutated, writeFailures>>
    /\ UNCHANGED <<termVars, xferVars, addVars, normalised>>

\* the status becomes 1 on Ctrl+C
KeyCtrlC_mut ==
    /\ GetKey("CTRL_C")
    /\ pc' = "exited"
    /\ exitStatus' = 1
    /\ report' = "interrupt"
    /\ reportRaw' = (screen = "curses")
    /\ screen' = "normal"
    /\ UNCHANGED <<quiet, file, entries, last_selected_idx, selected_idx, action,
                   svTarget, svCont, svPrev, fault, readerSaw, mutated, writeFailures,
                   before, xferVars, addVars, normalised>>

\* lines 225-226: KeyboardInterrupt reaches main, lines 372-375
KeyCtrlC ==
    /\ GetKey("CTRL_C")
    /\ pc' = "exited"
    /\ exitStatus' = 0
    /\ UNCHANGED fault
    /\ UNCHANGED <<quiet, file, entries, last_selected_idx, selected_idx, action,
                   svTarget, svCont, svPrev, readerSaw, mutated, writeFailures, before>>
    /\ report' = "interrupt"
    /\ reportRaw' = (screen = "curses")
    /\ screen' = "normal"
    /\ UNCHANGED <<xferVars, addVars, normalised>>

\* getch or the redraw raises inside the loop: lines 229-233, then main line 382
MenuFault ==
    /\ GetKey("fault")
    /\ pc' = "exited"
    /\ exitStatus' = 1
    /\ fault' = "curses.error"
    /\ screen' = "normal"
    /\ report' = "error"
    /\ reportRaw' = FALSE
    /\ UNCHANGED <<quiet, file, entries, last_selected_idx, selected_idx, action,
                   svTarget, svCont, svPrev, readerSaw, mutated, writeFailures, before,
                   xferVars, addVars, normalised>>

\* ------------------------------------------------- application: follow-ups
\* what the operator may type at the address prompt, and at the other prompts
IpInputs == {"10.0.0.5", "10.0.0.6 "}

UserInputs == {"svc"}

PasswordInputs == {"x"}

PathInputs == {"/tmp/out"}

\* .decode('utf-8').strip() on the typed line
Strip(t) == IF t = "10.0.0.6 " THEN "10.0.0.6" ELSE t

\* the four fields of the dict a profile token stands for
ProfileFields(p) ==
    IF p = "pA" THEN <<"10.0.0.5", "svc", "x", "/tmp/out">>
    ELSE <<"10.0.0.6", "svc", "x", "/tmp/out">>

\* line 268: the dict built from the four fields
NewEntry(f) == CHOOSE p \in Profiles : ProfileFields(p) = f

AddFrame ==
    UNCHANGED <<quiet, file, entries, last_selected_idx, selected_idx, key, action,
                svTarget, svCont, svPrev, exitStatus, fault, readerSaw, mutated,
                writeFailures, before, termVars, xferVars, normalised>>

\* line 254: the address is read, then line 256
ReadIp ==
    /\ pc = "add_ip"
    /\ \E t \in IpInputs : typed' = <<Strip(t)>>
    /\ pc' = "add_user"
    /\ UNCHANGED echo
    /\ AddFrame

\* the echo is left on for the password
ReadUser_mut ==
    /\ pc = "add_user"
    /\ \E t \in UserInputs : typed' = Append(typed, Strip(t))
    /\ pc' = "add_password"
    /\ UNCHANGED echo
    /\ AddFrame

\* line 257: the username is read, then lines 259-260
ReadUser ==
    /\ pc = "add_user"
    /\ \E t \in UserInputs : typed' = Append(typed, Strip(t))
    /\ pc' = "add_password"
    /\ echo' = FALSE
    /\ AddFrame

\* line 261: the password is read, then lines 263-264
ReadPassword ==
    /\ pc = "add_password"
    /\ \E t \in PasswordInputs : typed' = Append(typed, Strip(t))
    /\ pc' = "add_path"
    /\ echo' = TRUE
    /\ AddFrame

\* the new profile is put in front of the list
AddEntered_mut ==
    /\ pc = "add_path"
    /\ \E t \in PathInputs :
          LET f == Append(typed, Strip(t))
              es == <<NewEntry(f)>> \o entries
          IN  /\ typed' = f
              /\ entries' = es
              /\ last_selected_idx' = Len(entries)
              /\ BeginSave(es, Len(entries), "loop")
    /\ mutated' = TRUE
    /\ UNCHANGED <<quiet, file, selected_idx, key, action, exitStatus, fault, readerSaw,
                   writeFailures, before, termVars, xferVars, echo, normalised>>

\* line 265: the remote path is read; lines 268-269, then application lines 341-344
AddEntered ==
    /\ pc = "add_path"
    /\ \E t \in PathInputs :
          LET f == Append(typed, Strip(t))
              es == Append(entries, NewEntry(f))
          IN  /\ typed' = f
              /\ entries' = es
              /\ last_selected_idx' = Len(entries)
              /\ BeginSave(es, Len(entries), "loop")
    /\ mutated' = TRUE
    /\ UNCHANGED <<quiet, file, selected_idx, key, action, exitStatus, fault, readerSaw,
                   writeFailures, before, termVars, xferVars, echo, normalised>>

AddPcs == {"add_ip", "add_user", "add_password", "add_path"}

\* SIGINT while a field is read: KeyboardInterrupt reaches main, lines 372-375
AddInterrupt ==
    /\ pc \in AddPcs
    /\ pc' = "exited"
    /\ exitStatus' = 0
    /\ report' = "interrupt"
    /\ reportRaw' = (screen = "curses")
    /\ screen' = "normal"
    /\ UNCHANGED <<quiet, file, entries, last_selected_idx, selected_idx, key, action,
                   svTarget, svCont, svPrev, fault, readerSaw, mutated, writeFailures,
                   before, xferVars, addVars, normalised>>

\* line 322: any key, then line 323
ClearAck ==
    /\ pc = "wait_clear"
    /\ BeginSave(entries, last_selected_idx, "loop")
    /\ UNCHANGED <<quiet, file, entries, last_selected_idx, selected_idx, key, action,
                   exitStatus, fault, readerSaw, mutated, writeFailures, before>>
    /\ UNCHANGED <<termVars, xferVars, addVars, normalised>>

\* the loop goes on without line 336
RemoveAck_mut ==
    /\ pc = "wait_remove"
    /\ pc' = "browsing"
    /\ selected_idx' = last_selected_idx
    /\ UNCHANGED <<quiet, file, entries, last_selected_idx, key, action, svTarget, svCont,
                   svPrev, exitStatus, fault, readerSaw, mutated, writeFailures, before>>
    /\ UNCHANGED <<termVars, xferVars, addVars, normalised>>

\* line 335: any key, then line 336
RemoveAck ==
    /\ pc = "wait_remove"
    /\ BeginSave(entries, last_selected_idx, "loop")
    /\ UNCHANGED <<quiet, file, entries, last_selected_idx, selected_idx, key, action,
                   exitStatus, fault, readerSaw, mutated, writeFailures, before>>
    /\ UNCHANGED <<termVars, xferVars, addVars, normalised>>

\* ---------------------------------------------------------------- send_file
XferFrame ==
    UNCHANGED <<quiet, file, entries, last_selected_idx, selected_idx, key, action,
                svTarget, svCont, svPrev, fault, readerSaw, mutated, writeFailures,
                before, screen, reportRaw, localFile, sentTo, addVars, normalised>>

\* line 131, create_ssh_client line 94: the session is open
ConnectOk ==
    /\ pc = "transfer"
    /\ connects' = connects + 1
    /\ pc' = "connected"
    /\ UNCHANGED <<exitStatus, report, uploads>>
    /\ XferFrame

\* the upload is tried although no session was opened
ConnectFail_mut ==
    /\ pc = "transfer"
    /\ connects' = connects + 1
    /\ report' = "connect_failed"
    /\ pc' = "connected"
    /\ UNCHANGED <<exitStatus, uploads>>
    /\ XferFrame

\* create_ssh_client lines 96-104 report the failure and return None; send_file
\* lines 132-133 return, application returns to main
ConnectFail ==
    /\ pc = "transfer"
    /\ connects' = connects + 1
    /\ report' = "connect_failed"
    /\ pc' = "exited"
    /\ exitStatus' = 0
    /\ UNCHANGED uploads
    /\ XferFrame

\* line 141 raises FileNotFoundError: lines 156-157, 163-165
FileNotFound ==
    /\ pc = "connected"
    /\ ~localFile
    /\ report' = "file_not_found"
    /\ pc' = "exited"
    /\ exitStatus' = 0
    /\ UNCHANGED <<connects, uploads>>
    /\ XferFrame

\* lines 141-153: scp_client.put succeeds
UploadOk ==
    /\ pc = "connected"
    /\ localFile
    /\ uploads' = uploads + 1
    /\ report' = "uploaded"
    /\ pc' = "exited"
    /\ exitStatus' = 0
    /\ UNCHANGED connects
    /\ XferFrame

\* line 149 raises: lines 158-165
UploadFail ==
    /\ pc = "connected"
    /\ localFile
    /\ uploads' = uploads + 1
    /\ report' = "transfer_error"
    /\ pc' = "exited"
    /\ exitStatus' = 0
    /\ UNCHANGED connects
    /\ XferFrame

\* ------------------------------------------------------------ environment
\* the process is killed; what is in the file stays as it is
Crash ==
    /\ pc \notin {"start", "exited", "crashed"}
    /\ pc' = "crashed"
    /\ UNCHANGED <<quiet, file, entries, last_selected_idx, selected_idx, key, action,
                   svTarget, svCont, svPrev, exitStatus, fault, readerSaw, mutated,
                   writeFailures, before>>
    /\ UNCHANGED <<termVars, xferVars, addVars, normalised>>

Saving == pc \in {"save_open", "save_write"}

\* what another process reading the file now gets
ReaderView ==
    IF Saving /\ file # svPrev /\ file # FileOf(svTarget) THEN "torn" ELSE "whole"

\* another process runs load_entries on the same file
Reader ==
    /\ pc \notin {"start", "exited", "crashed"}
    /\ readerSaw' = ReaderView
    /\ UNCHANGED <<pc, quiet, file, entries, last_selected_idx, selected_idx, key, action,
                   svTarget, svCont, svPrev, exitStatus, fault, mutated, writeFailures,
                   before>>
    /\ UNCHANGED <<termVars, xferVars, addVars, normalised>>

Next ==
    \/ StartLoad
    \/ KeyUp
    \/ KeyDown
    \/ KeyOther
    \/ KeyEnter
    \/ KeyN
    \/ KeyA
    \/ KeyC
    \/ KeyQ
    \/ KeyCtrlC
    \/ MenuFault
    \/ ReadIp
    \/ ReadUser
    \/ ReadPassword
    \/ AddEntered
    \/ AddInterrupt
    \/ ClearAck
    \/ RemoveAck
    \/ SaveOpen
    \/ SaveWrite
    \/ SaveClose
    \/ ConnectOk
    \/ ConnectFail
    \/ FileNotFound
    \/ UploadOk
    \/ UploadFail

Spec == Init /\ [][Next]_vars

\* the session with the write failures of lines 49-50
NextIO ==
    \/ Next
    \/ SaveOpenFail
    \/ SaveDumpFail

SpecIO == Init /\ [][NextIO]_vars

\* the session, killed at any point
NextCrash ==
    \/ Next
    \/ Crash

SpecCrash == Init /\ [][NextCrash]_vars

\* the config file is missing or was left by an earlier run of the program
WrittenFiles ==
    {NoFile}
    \cup {FileOf(Dump(st.entries, st.last_selected_idx)) :
             st \in {v \in ValidStores : v.entries = <<>> \/ v.last_selected_idx >= 0}}

InitWritten ==
    /\ Init
    /\ file \in WrittenFiles

SpecWritten == InitWritten /\ [][Next]_vars

\* the session with another process reading the file
NextConc ==
    \/ Next
    \/ Reader

SpecConc == Init /\ [][NextConc]_vars

TypeOK ==
    /\ pc \in {"start", "browsing", "add_ip", "add_user", "add_password", "add_path",
               "wait_clear", "wait_remove", "save_open",
               "save_write", "transfer", "connected", "exited", "crashed"}
    /\ exitStatus \in {-1, 0, 1}
    /\ Len(entries) <= MaxEntries


\* ------------------------------------------------------------- properties
Min(a, b) == IF a < b THEN a ELSE b

ValidIdx(es, i) == es # <<>> => i \in -1 .. (Len(es) - 1)

\* the store a run starting now would hold after lines 291-296
NextRunStore ==
    LET data == load_entries(file)
    IN  Store(data.entries, NormIdx(data.last_selected_idx))

\* C1: the in-memory store, every store handed to save_entries and every store
\* the file holds have last_selected_idx = -1 or a valid index when the list is
\* non-empty; right after a removal the index is min(previous, len-1), or -1
\* when the list is empty.
C1_StoreInvariant ==
    /\ ValidIdx(entries, last_selected_idx)
    /\ pc \in {"save_open", "save_write"} =>
          LET d == JsonLoad(svTarget)
          IN  d.kind = "object" /\ ValidIdx(d.entries, d.idx)
    /\ ~load_entries(file).raised =>
          ValidIdx(load_entries(file).entries, load_entries(file).last_selected_idx)
    /\ pc = "wait_remove" =>
          last_selected_idx = IF entries = <<>> THEN -1
                              ELSE Min(before.last_selected_idx, Len(entries) - 1)

\* a removal has lowered the remembered index
C1_Witness ==
    /\ pc = "wait_remove"
    /\ entries # <<>>
    /\ last_selected_idx < before.last_selected_idx

\* C2: once an add, remove, clear or select has been handled and no write has
\* failed, the file holds the in-memory store whenever the menu waits for a key,
\* the transfer is about to start or the process has exited.
C2_PersistAfterMutation ==
    (mutated /\ ~writeFailed /\ pc \in {"browsing", "transfer", "exited"}) =>
        /\ ~load_entries(file).raised
        /\ load_entries(file).entries = entries
        /\ load_entries(file).last_selected_idx = last_selected_idx

\* back in the menu after a removal that left profiles, with write failures possible
C2_Witness ==
    /\ mutated
    /\ ~writeFailed
    /\ pc = "browsing"
    /\ action.tag = "remove"
    /\ entries # <<>>
    /\ Len(entries) < Len(before.entries)

\* C3: a concurrent reader never observes a half-written file.
C3_AtomicSave == readerSaw # "torn"

\* the store save_entries was writing, if a save was in progress
BeingSaved ==
    IF svCont = "none" THEN {}
    ELSE {Store(JsonLoad(svTarget).entries, NormIdx(JsonLoad(svTarget).idx))}

\* C4: after a crash the next run starts from the store as it was just before
\* or just after the action in progress (in memory, or as it was being saved).
C4_CrashDurability ==
    pc = "crashed" =>
        NextRunStore \in {Store(before.entries, NormIdx(before.last_selected_idx)),
                          Store(entries, NormIdx(last_selected_idx))} \cup BeingSaved

BadFile(f) == ~f.exists \/ JsonLoad(f.content).kind # "object"

\* C5: a missing file and a file with invalid content (not JSON, or JSON that
\* is not a store object) load as the empty default and startup does not fail.
C5_TolerantLoad ==
    (pc # "start" /\ BadFile(file)) =>
        /\ load_entries(file) = DefaultData
        /\ fault # "TypeError"

\* C6: c with the cursor on a valid index i of a list of length L removes the
\* profile at i only, keeps the others in order, and sets last_selected_idx to
\* min(previous, L-2), or to -1 when the list becomes empty.
C6_ValidRemoval ==
    [][(pc = "browsing" /\ key' = "c" /\ pc' = "wait_remove"
            /\ 0 <= selected_idx /\ selected_idx < Len(entries)) =>
          /\ Len(entries') = Len(entries) - 1
          /\ \A j \in 1 .. Len(entries') :
                 entries'[j] = IF j <= selected_idx THEN entries[j] ELSE entries[j + 1]
          /\ last_selected_idx' = IF Len(entries) = 1 THEN -1
                                  ELSE Min(last_selected_idx, Len(entries) - 2)
          /\ last_selected_idx' \in -1 .. (Len(entries) - 2)]_vars

\* three profiles, cursor on the last one, c pressed
C6_Witness ==
    /\ pc = "wait_remove"
    /\ action = [tag |-> "remove", idx |-> 2]
    /\ Len(before.entries) = 3
    /\ Len(entries) = 2

\* C7: a remove request with an index outside the list leaves the profile list
\* and last_selected_idx as they were.
C7_OutOfBoundsNoop ==
    (pc = "wait_remove" /\ ~(0 <= action.idx /\ action.idx < Len(before.entries))) =>
        Store(entries, last_selected_idx) = before

\* C8: with profiles in the list the cursor stays in [0, len-1]; Up at 0 and
\* Down at len-1 leave it, otherwise they move it by one.
C8_CursorBounds ==
    /\ [](pc = "browsing" /\ entries # <<>> => selected_idx \in 0 .. (Len(entries) - 1))
    /\ [][(pc = "browsing" /\ entries # <<>> /\ key' = "UP") =>
             selected_idx' = IF selected_idx = 0 THEN 0 ELSE selected_idx - 1]_vars
    /\ [][(pc = "browsing" /\ entries # <<>> /\ key' = "DOWN") =>
             selected_idx' = IF selected_idx = Len(entries) - 1
                             THEN selected_idx ELSE selected_idx + 1]_vars

\* Down was pressed with the cursor on the last of several rows
C8_Witness ==
    /\ pc = "browsing"
    /\ key = "DOWN"
    /\ Len(entries) >= 2
    /\ selected_idx = Len(entries) - 1

\* C9: on an empty list Enter and c produce no Selected and no RemoveRequested,
\* and no profile is indexed.
C9_EmptyListNoops ==
    /\ action.tag \in {"selected", "remove"} => before.entries # <<>>
    /\ fault # "IndexError"

Outcome(k, cursor) ==
    CASE k = "ENTER" -> [tag |-> "selected", idx |-> cursor]
      [] k = "n" -> [tag |-> "add", idx |-> -1]
      [] k = "a" -> [tag |-> "clear", idx |-> -1]
      [] k = "c" -> [tag |-> "remove", idx |-> cursor]
      [] k = "q" -> [tag |-> "quit", idx |-> -1]
      [] OTHER -> action

\* C10: Enter, n, a, c, q end the menu with Selected(cursor), AddRequested,
\* ClearRequested, RemoveRequested(cursor), Quit; the menu is entered again
\* only after an add, a clear or a remove, with the list that action produced,
\* and never after Quit or Selected.
C10_TransitionTable ==
    /\ [][(pc = "browsing" /\ key' \in {"ENTER", "n", "a", "c", "q"}) =>
             /\ action' = Outcome(key', selected_idx)
             /\ pc' # "browsing"]_vars
    /\ [][(pc \notin {"start", "browsing"} /\ pc' = "browsing") =>
             /\ action.tag \in {"add", "clear", "remove"}
             /\ action.tag = "add" =>
                    /\ Len(entries') = Len(before.entries) + 1
                    /\ SubSeq(entries', 1, Len(before.entries)) = before.entries
             /\ action.tag = "clear" => entries' = <<>>
             /\ action.tag = "remove" =>
                    entries' = remove_entry(before.entries, action.idx)
             /\ selected_idx' = last_selected_idx']_vars
    /\ [](action.tag \in {"quit", "selected"} => pc # "browsing")

\* the menu is entered again after a removal at a cursor that was moved
C10_Witness ==
    /\ pc = "browsing"
    /\ action.tag = "remove"
    /\ action.idx # before.last_selected_idx
    /\ entries = remove_entry(before.entries, action.idx)
    /\ entries # before.entries


\* C11: with --quiet the menu is never entered; a non-empty store sends the
\* profile at the stored last_selected_idx, -1 counting as 0; an empty store
\* prints a message and no transfer is attempted.
C11_RepeatLast ==
    quiet =>
        /\ key = "none"
        /\ action = NoAction
        /\ pc \in {"start", "transfer", "connected", "exited"}
        /\ (pc # "start" /\ ~load_entries(file).raised) =>
              LET d == load_entries(file)
              IN  IF d.entries = <<>>
                  THEN /\ pc = "exited"
                       /\ report = "no_connections"
                       /\ sentTo = "none"
                       /\ connects = 0
                       /\ uploads = 0
                  ELSE /\ fault = "none"
                       /\ sentTo = d.entries[(IF d.last_selected_idx = -1 THEN 0
                                              ELSE d.last_selected_idx) + 1]

\* repeat-last on a stored -1 with different first and last profiles
C11_Witness ==
    /\ quiet
    /\ pc = "connected"
    /\ load_entries(file).last_selected_idx = -1
    /\ Len(entries) >= 2
    /\ entries[1] # entries[Len(entries)]
    /\ sentTo = entries[1]

\* C12: when the local file does not exist, file-not-found is reported and no
\* session is opened in that run.
C12_MissingLocalFile ==
    (~localFile /\ sentTo # "none") =>
        /\ connects = 0
        /\ pc = "exited" => report = "file_not_found"

FinalReports == {"interrupt", "error", "copying", "no_connections", "connect_failed",
                 "file_not_found", "uploaded", "transfer_error"}

\* C13: curses mode has ended before any final status line is printed and
\* before the transfer starts.
C13_TeardownOrdering ==
    /\ report \in FinalReports => ~reportRaw
    /\ pc \in {"transfer", "connected"} => screen = "normal"

C15_LoopUntilQuitOrSuccess ==
    (pc = "exited" /\ ~quiet /\ fault = "none" /\ report # "interrupt") =>
        (action.tag = "quit" \/ report = "uploaded")

NextField(p) ==
    CASE p = "add_ip" -> "add_user"
      [] p = "add_user" -> "add_password"
      [] p = "add_password" -> "add_path"
      [] p = "add_path" -> "save_open"

\* C16: every add flow reads address, username, secret, remote path in that
\* order; echo is off while the secret is read and on while the others are.
C16_EchoDiscipline ==
    /\ [](pc \in {"add_ip", "add_user", "add_path"} => echo)
    /\ [](pc = "add_password" => ~echo)
    /\ [](/\ pc = "add_ip" => Len(typed) = 0
          /\ pc = "add_user" => Len(typed) = 1
          /\ pc = "add_password" => Len(typed) = 2
          /\ pc = "add_path" => Len(typed) = 3)
    /\ [][(pc \in AddPcs /\ pc' \notin {pc, "exited"}) => pc' = NextField(pc)]_vars
    /\ [][(pc \notin AddPcs /\ pc' \in AddPcs) => (pc = "browsing" /\ pc' = "add_ip")]_vars

\* the secret is being read in an add flow that is not the first
C16_Witness ==
    /\ pc = "add_password"
    /\ ~echo
    /\ Len(typed) = 2
    /\ mutated
    /\ entries # <<>>

\* C17: a completed add appends the entered profile (fields trimmed) after the
\* unchanged first L, sets last_selected_idx to L and the file reloads to it;
\* an interrupted add flow changes neither the list nor the file.
C17_AddAppendsOne ==
    /\ [][(pc = "add_path" /\ pc' = "save_open") =>
             /\ Len(entries') = Len(entries) + 1
             /\ SubSeq(entries', 1, Len(entries)) = entries
             /\ Len(typed') = 4
             /\ ProfileFields(entries'[Len(entries')]) = typed'
             /\ last_selected_idx' = Len(entries)]_vars
    /\ []((pc = "browsing" /\ action.tag = "add") =>
             /\ ~load_entries(file).raised
             /\ load_entries(file).entries = entries
             /\ load_entries(file).last_selected_idx = last_selected_idx
             /\ Len(entries) = Len(before.entries) + 1
             /\ ProfileFields(entries[Len(entries)]) = typed)
    /\ [][(pc \in AddPcs /\ pc' = "exited") =>
             (entries' = entries /\ last_selected_idx' = last_selected_idx
              /\ file' = file)]_vars

\* the empty store after adding 10.0.0.5 / svc / x / /tmp/out
C17_Witness ==
    /\ pc = "browsing"
    /\ action.tag = "add"
    /\ before.entries = <<>>
    /\ Len(entries) = 1
    /\ last_selected_idx = 0
    /\ typed = <<"10.0.0.5", "svc", "x", "/tmp/out">>
    /\ load_entries(file).entries = entries

\* C18: a failed connect is tried once, is reported, is followed by no upload
\* and leaves the file as the select wrote it (as it was, in repeat-last mode).
C18_ConnectFailureAborts ==
    /\ [](report = "connect_failed" =>
             /\ pc = "exited"
             /\ connects = 1
             /\ uploads = 0
             /\ ~quiet => /\ action.tag = "selected"
                          /\ load_entries(file).entries = entries
                          /\ load_entries(file).last_selected_idx = last_selected_idx)
    /\ [][(quiet \/ pc \in {"transfer", "connected"}) => file' = file]_vars

\* a connect failure after a selection in the menu
C18_Witness ==
    /\ report = "connect_failed"
    /\ ~quiet
    /\ action.tag = "selected"
    /\ Len(entries) >= 2

\* C19: q with no add, remove, clear or select leaves in the file the profile
\* list and the last_selected_idx that were loaded.
C19_QuitPreservesStore ==
    (pc = "exited" /\ action.tag = "quit" /\ ~mutated) =>
        /\ load_entries(file).entries = before.entries
        /\ load_entries(file).last_selected_idx =
               IF normalised THEN -1 ELSE before.last_selected_idx

RemovesOther ==
    /\ pc = "browsing"
    /\ key' = "c"
    /\ pc' = "wait_remove"
    /\ 0 <= selected_idx
    /\ selected_idx < Len(entries)
    /\ selected_idx # last_selected_idx

SameRemembered ==
    /\ last_selected_idx' \in 0 .. (Len(entries') - 1)
    /\ entries'[last_selected_idx' + 1] = entries[last_selected_idx + 1]

\* C20 as stated: removing a profile other than the remembered one leaves
\* last_selected_idx on the same profile.
C20_RemovalKeepsRemembered ==
    [][RemovesOther => SameRemembered]_vars

\* C20: removing a profile above the remembered one, or below it when the
\* remembered one is the last of the list, leaves last_selected_idx on the same
\* profile.
C20_RemovalAboveKeepsRemembered ==
    [][(RemovesOther /\ (selected_idx > last_selected_idx
                          \/ last_selected_idx = Len(entries) - 1)) => SameRemembered]_vars

\* the last of three profiles was removed while the second was remembered
C20_Witness ==
    /\ pc = "wait_remove"
    /\ Len(before.entries) = 3
    /\ before.last_selected_idx = 1
    /\ action.idx = 2
    /\ last_selected_idx = 1
    /\ entries[2] = before.entries[2]
    /\ before.entries[2] # before.entries[1]

====
